---- MODULE Spec2Model ----
(***************************************************************************)
(* Rule-based CV analysis engine of the CV analyzer backend                *)
(* (backend/app/services/cv_analysis.py): keyword extraction, section      *)
(* detection, bullet quantification and keyword matching, each modelled    *)
(* as the steps one invocation takes over its own local variables.         *)
(*                                                                         *)
(* The request pipeline (backend/app/main.py) and the feedback provider    *)
(* (backend/app/services/llm_client.py) are modelled as the stages one     *)
(* request passes through.                                                 *)
(*                                                                         *)
(* A text is a sequence of characters and a character is a one-character   *)
(* string; characters outside ASCII are named by their code point.         *)
(***************************************************************************)
EXTENDS Integers, Sequences, FiniteSets, TLC

VARIABLES frames, use_gemini_api, request

vars == <<frames, use_gemini_api, request>>

----------------------------------------------------------------------------
(* Characters and the character classes of Python's re module (str          *)
(* patterns, Unicode matching).                                             *)

NL == "\n"
TAB == "\t"
BULLET == "U+2022"
WBULLET == "U+25E6"
EACUTE == "U+00E9"

LowerLetters ==
  {"a", "b", "c", "d", "e", "f", "g", "h", "i", "j", "k", "l", "m",
   "n", "o", "p", "q", "r", "s", "t", "u", "v", "w", "x", "y", "z"}

UpperLetters ==
  {"A", "B", "C", "D", "E", "F", "G", "H", "I", "J", "K", "L", "M",
   "N", "O", "P", "Q", "R", "S", "T", "U", "V", "W", "X", "Y", "Z"}

Digits == {"0", "1", "2", "3", "4", "5", "6", "7", "8", "9"}

\* str.lower() on one character: A-Z map to a-z, everything else of the
\* model's alphabet is its own lowercase form.
LowerChar(c) ==
  CASE c = "A" -> "a" [] c = "B" -> "b" [] c = "C" -> "c" [] c = "D" -> "d"
    [] c = "E" -> "e" [] c = "F" -> "f" [] c = "G" -> "g" [] c = "H" -> "h"
    [] c = "I" -> "i" [] c = "J" -> "j" [] c = "K" -> "k" [] c = "L" -> "l"
    [] c = "M" -> "m" [] c = "N" -> "n" [] c = "O" -> "o" [] c = "P" -> "p"
    [] c = "Q" -> "q" [] c = "R" -> "r" [] c = "S" -> "s" [] c = "T" -> "t"
    [] c = "U" -> "u" [] c = "V" -> "v" [] c = "W" -> "w" [] c = "X" -> "x"
    [] c = "Y" -> "y" [] c = "Z" -> "z" [] OTHER -> c

\* str.lower()
lower(s) == SubSeq([i \in 1..Len(s) |-> LowerChar(s[i])], 1, Len(s))

\* The operator `needle in hay` on two strings.
str_in(needle, hay) ==
  \E i \in 0..(Len(hay) - Len(needle)) :
     SubSeq(hay, i + 1, i + Len(needle)) = needle

\* \w : letters of any script, digits and the underscore.
WordChars == LowerLetters \cup UpperLetters \cup Digits \cup {"_", EACUTE}

\* \s
SpaceChars == {" ", TAB, NL}

\* [a-zA-Z]
AsciiLetters == LowerLetters \cup UpperLetters

\* [•\-\*◦]
BulletGlyphs == {BULLET, "-", "*", WBULLET}

\* Offsets count the characters already consumed, as in Python: offset k
\* lies between s[k] and s[k+1].

\* The end of the longest run of characters of class cls that starts at
\* offset k (k itself when the run is empty): a greedy cls*.
RunEnd(s, k, cls) ==
  CHOOSE e \in k..Len(s) :
     /\ \A j \in (k + 1)..e : s[j] \in cls
     /\ e = Len(s) \/ s[e + 1] \notin cls

\* The end of the longest run of characters other than newline that
\* starts at offset k: a greedy .* without DOTALL.
DotRunEnd(s, k) ==
  CHOOSE e \in k..Len(s) :
     /\ \A j \in (k + 1)..e : s[j] # NL
     /\ e = Len(s) \/ s[e + 1] = NL

\* \b at offset k
WordBoundary(s, k) ==
  (k > 0 /\ s[k] \in WordChars) # (k < Len(s) /\ s[k + 1] \in WordChars)

\* ^ at offset k under re.MULTILINE
LineStart(s, k) == k = 0 \/ s[k] = NL

----------------------------------------------------------------------------
(* Optional[str] arguments                                                  *)

None == [is_none |-> TRUE, str |-> <<>>]

Some(s) == [is_none |-> FALSE, str |-> s]

\* Truth value of an Optional[str]: None and "" are falsy.
Truthy(o) == ~o.is_none /\ o.str # <<>>

----------------------------------------------------------------------------
(* extract_keywords                                                         *)

stopwords ==
  {<<"t", "h", "e">>, <<"a">>, <<"a", "n">>, <<"a", "n", "d">>, <<"o", "r">>, <<"b", "u", "t">>, <<"i", "n">>, <<"o", "n">>, <<"a", "t">>,
   <<"t", "o">>, <<"f", "o", "r">>, <<"o", "f">>, <<"w", "i", "t", "h">>, <<"b", "y">>, <<"f", "r", "o", "m">>, <<"a", "s">>, <<"i", "s">>,
   <<"a", "r", "e">>, <<"w", "a", "s">>, <<"w", "e", "r", "e">>, <<"b", "e">>, <<"b", "e", "e", "n">>, <<"b", "e", "i", "n", "g">>, <<"h", "a", "v", "e">>,
   <<"h", "a", "s">>, <<"h", "a", "d">>, <<"d", "o">>, <<"d", "o", "e", "s">>, <<"d", "i", "d">>, <<"w", "i", "l", "l">>, <<"w", "o", "u", "l", "d">>,
   <<"c", "o", "u", "l", "d">>, <<"s", "h", "o", "u", "l", "d">>, <<"m", "a", "y">>, <<"m", "i", "g", "h", "t">>, <<"c", "a", "n">>, <<"t", "h", "i", "s">>, <<"t", "h", "a", "t">>,
   <<"t", "h", "e", "s", "e">>, <<"t", "h", "o", "s", "e">>, <<"i">>, <<"y", "o", "u">>, <<"h", "e">>, <<"s", "h", "e">>, <<"i", "t">>, <<"w", "e">>,
   <<"t", "h", "e", "y">>}

\* word_findall without the two \b: every run of a-z is a match.
RECURSIVE word_findall_unanchored(_, _)
word_findall_unanchored(s, pos) ==
  IF pos >= Len(s) THEN <<>>
  ELSE LET e == RunEnd(s, pos, LowerLetters)
       IN  IF e > pos
             THEN <<SubSeq(s, pos + 1, e)>> \o word_findall_unanchored(s, e)
             ELSE word_findall_unanchored(s, pos + 1)

\* re.findall(r'\b[a-z]+\b', s) from offset pos on. The engine tries each
\* offset in turn; at an offset it takes the longest run of a-z and, as no
\* \b lies inside a run of letters, a shorter run never matches either.
RECURSIVE word_findall(_, _)
word_findall(s, pos) ==
  IF pos >= Len(s) THEN <<>>
  ELSE LET e == RunEnd(s, pos, LowerLetters)
       IN  IF e > pos /\ WordBoundary(s, pos) /\ WordBoundary(s, e)
             THEN <<SubSeq(s, pos + 1, e)>> \o word_findall(s, e)
             ELSE word_findall(s, pos + 1)

\* KeywordLoopBody without the test on seen: a repeated word is appended
\* again.
KeywordLoopBodyNoSeen(keywords, seen, word, top_n) ==
  IF Len(word) > 2 /\ word \notin stopwords
    THEN [keywords |-> Append(keywords, word),
          seen     |-> seen \cup {word},
          break    |-> Len(keywords) + 1 >= top_n]
    ELSE [keywords |-> keywords, seen |-> seen, break |-> FALSE]

\* One iteration of the loop over words: the local variables after the
\* iteration and whether the loop breaks.
KeywordLoopBody(keywords, seen, word, top_n) ==
  IF Len(word) > 2 /\ word \notin stopwords /\ word \notin seen
    THEN [keywords |-> Append(keywords, word),
          seen     |-> seen \cup {word},
          break    |-> Len(keywords) + 1 >= top_n]
    ELSE [keywords |-> keywords, seen |-> seen, break |-> FALSE]

RECURSIVE KeywordLoop(_, _, _, _, _)
KeywordLoop(words, i, keywords, seen, top_n) ==
  IF i > Len(words) THEN keywords
  ELSE LET b == KeywordLoopBody(keywords, seen, words[i], top_n)
       IN  IF b.break THEN b.keywords
           ELSE KeywordLoop(words, i + 1, b.keywords, b.seen, top_n)

extract_keywords(text, top_n) ==
  IF ~Truthy(text) THEN <<>>
  ELSE KeywordLoop(word_findall(lower(text.str), 0), 1, <<>>, {}, top_n)

----------------------------------------------------------------------------
(* detect_sections                                                          *)

summary_keywords == {<<"s", "u", "m", "m", "a", "r", "y">>, <<"p", "r", "o", "f", "i", "l", "e">>, <<"o", "b", "j", "e", "c", "t", "i", "v", "e">>, <<"a", "b", "o", "u", "t", " ", "m", "e">>}

skills_keywords ==
  {<<"s", "k", "i", "l", "l", "s">>, <<"t", "e", "c", "h", "n", "i", "c", "a", "l", " ", "s", "k", "i", "l", "l", "s">>, <<"c", "o", "m", "p", "e", "t", "e", "n", "c", "i", "e", "s">>, <<"e", "x", "p", "e", "r", "t", "i", "s", "e">>}

experience_keywords ==
  {<<"e", "x", "p", "e", "r", "i", "e", "n", "c", "e">>, <<"w", "o", "r", "k", " ", "e", "x", "p", "e", "r", "i", "e", "n", "c", "e">>, <<"e", "m", "p", "l", "o", "y", "m", "e", "n", "t">>, <<"w", "o", "r", "k", " ", "h", "i", "s", "t", "o", "r", "y">>}

projects_keywords == {<<"p", "r", "o", "j", "e", "c", "t", "s">>, <<"p", "e", "r", "s", "o", "n", "a", "l", " ", "p", "r", "o", "j", "e", "c", "t", "s">>, <<"p", "o", "r", "t", "f", "o", "l", "i", "o">>}

education_keywords ==
  {<<"e", "d", "u", "c", "a", "t", "i", "o", "n">>, <<"a", "c", "a", "d", "e", "m", "i", "c">>, <<"d", "e", "g", "r", "e", "e">>, <<"u", "n", "i", "v", "e", "r", "s", "i", "t", "y">>, <<"c", "o", "l", "l", "e", "g", "e">>}

\* any(keyword in cv_lower for keyword in keywords)
any_in(keywords, cv_lower) == \E keyword \in keywords : str_in(keyword, cv_lower)

\* detect_sections on the text as given, not lowercased.
detect_sections_case_sensitive(cv_text) ==
  [has_summary    |-> any_in(summary_keywords, cv_text),
   has_skills     |-> any_in(skills_keywords, cv_text),
   has_experience |-> any_in(experience_keywords, cv_text),
   has_projects   |-> any_in(projects_keywords, cv_text),
   has_education  |-> any_in(education_keywords, cv_text)]

detect_sections(cv_text) ==
  LET cv_lower == lower(cv_text)
  IN  [has_summary    |-> any_in(summary_keywords, cv_lower),
       has_skills     |-> any_in(skills_keywords, cv_lower),
       has_experience |-> any_in(experience_keywords, cv_lower),
       has_projects   |-> any_in(projects_keywords, cv_lower),
       has_education  |-> any_in(education_keywords, cv_lower)]

----------------------------------------------------------------------------
(* count_quantified_bullets                                                 *)

NoMatch == 0 - 1

\* The end offset of the match of  ^[\s]*[•\-\*◦]+[\s]*.+$  (re.MULTILINE)
\* that starts at offset s, or NoMatch. Each quantifier is greedy and
\* gives characters back only when what follows it fails:
\*   a : end of the leading [\s]*        b : end of the glyph run
\*   c : end of the second [\s]*
\* .+ needs a character other than newline, so the second [\s]* gives
\* back whitespace until .+ can start (the largest offset of stops); when
\* it cannot, the glyph run gives back its last glyph to .+ (b - 1 > a).
\* The leading [\s]* never gives back: a glyph must follow it. [\s]
\* matches the newline, so the match may run over several lines; .+ ends
\* at the end of its line, where $ holds.
BulletMatchEnd(t, s) ==
  LET a == RunEnd(t, s, SpaceChars)
      b == RunEnd(t, a, BulletGlyphs)
      c == RunEnd(t, b, SpaceChars)
      stops == {k \in b..c : k < Len(t) /\ t[k + 1] # NL}
  IN  IF ~LineStart(t, s) \/ b = a THEN NoMatch
      ELSE IF stops # {}
             THEN DotRunEnd(t, CHOOSE k \in stops : \A m \in stops : m <= k)
      ELSE IF b - 1 > a THEN DotRunEnd(t, b - 1)
      ELSE NoMatch

\* re.findall(bullet_pattern, t, re.MULTILINE) from offset pos on: the
\* matches in order, each search resuming where the last match ended.
RECURSIVE bullet_findall(_, _)
bullet_findall(t, pos) ==
  IF pos >= Len(t) THEN <<>>
  ELSE LET e == BulletMatchEnd(t, pos)
       IN  IF e # NoMatch
             THEN <<SubSeq(t, pos + 1, e)>> \o bullet_findall(t, e)
             ELSE bullet_findall(t, pos + 1)

\* is_quantified with \s in place of the space of the last alternative.
is_quantified_any_space(bullet) ==
  \E i \in 0..(Len(bullet) - 1) :
    \E j \in (i + 1)..RunEnd(bullet, i, Digits) :
       \/ j < Len(bullet) /\ bullet[j + 1] \in {"%", "+", "x"}
       \/ j + 1 < Len(bullet) /\ bullet[j + 1] = "," /\ bullet[j + 2] \in Digits
       \/ j + 1 < Len(bullet) /\ bullet[j + 1] \in SpaceChars
            /\ bullet[j + 2] \in AsciiLetters

\* re.search(r'\d+%|\d+\+|\d+x|\d+,\d+|\d+ [a-zA-Z]+', bullet) finds a
\* match: digits from offset i to offset j, then what the alternative asks.
is_quantified(bullet) ==
  \E i \in 0..(Len(bullet) - 1) :
    \E j \in (i + 1)..RunEnd(bullet, i, Digits) :
       \/ j < Len(bullet) /\ bullet[j + 1] = "%"
       \/ j < Len(bullet) /\ bullet[j + 1] = "+"
       \/ j < Len(bullet) /\ bullet[j + 1] = "x"
       \/ j + 1 < Len(bullet) /\ bullet[j + 1] = "," /\ bullet[j + 2] \in Digits
       \/ j + 1 < Len(bullet) /\ bullet[j + 1] = " "
            /\ bullet[j + 2] \in AsciiLetters

\* QuantLoopBody adding one for every metric found in the bullet, not one
\* for the bullet.
QuantLoopBodyPerMetric(quantified_count, bullet) ==
  quantified_count
    + Cardinality({j \in 1..(Len(bullet) - 1) :
                     bullet[j] \in Digits /\ bullet[j + 1] \in {"%", "+", "x"}})

\* One iteration of the loop over bullets: quantified_count afterwards.
QuantLoopBody(quantified_count, bullet) ==
  IF is_quantified(bullet) THEN quantified_count + 1 ELSE quantified_count

RECURSIVE QuantLoop(_, _, _)
QuantLoop(bullets, i, quantified_count) ==
  IF i > Len(bullets) THEN quantified_count
  ELSE QuantLoop(bullets, i + 1, QuantLoopBody(quantified_count, bullets[i]))

count_quantified_bullets(cv_text) ==
  LET bullets == bullet_findall(cv_text, 0)
  IN  <<QuantLoop(bullets, 1, 0), Len(bullets)>>

----------------------------------------------------------------------------
(* compare_keywords                                                         *)

\* MatchLoopBody skipping a keyword that is in one of the lists already.
MatchLoopBodyDedup(matched, missing, keyword, cv_lower) ==
  IF \E i \in 1..Len(matched) : matched[i] = keyword THEN
    [matched |-> matched, missing |-> missing]
  ELSE IF \E i \in 1..Len(missing) : missing[i] = keyword THEN
    [matched |-> matched, missing |-> missing]
  ELSE IF str_in(lower(keyword), cv_lower)
    THEN [matched |-> Append(matched, keyword), missing |-> missing]
    ELSE [matched |-> matched, missing |-> Append(missing, keyword)]

\* MatchLoopBody looking for the keyword as given, not lowercased.
MatchLoopBodyCaseSensitive(matched, missing, keyword, cv_lower) ==
  IF str_in(keyword, cv_lower)
    THEN [matched |-> Append(matched, keyword), missing |-> missing]
    ELSE [matched |-> matched, missing |-> Append(missing, keyword)]

\* One iteration of the loop over jd_keywords: matched and missing
\* afterwards.
MatchLoopBody(matched, missing, keyword, cv_lower) ==
  IF str_in(lower(keyword), cv_lower)
    THEN [matched |-> Append(matched, keyword), missing |-> missing]
    ELSE [matched |-> matched, missing |-> Append(missing, keyword)]

RECURSIVE MatchLoop(_, _, _, _, _)
MatchLoop(jd_keywords, i, matched, missing, cv_lower) ==
  IF i > Len(jd_keywords) THEN <<matched, missing>>
  ELSE LET b == MatchLoopBody(matched, missing, jd_keywords[i], cv_lower)
       IN  MatchLoop(jd_keywords, i + 1, b.matched, b.missing, cv_lower)

compare_keywords(cv_text, jd_keywords) ==
  MatchLoop(jd_keywords, 1, <<>>, <<>>, lower(cv_text))

----------------------------------------------------------------------------
(* analyze_cv                                                               *)

RuleBasedResult(sections, quantified_count, total_count) ==
  [has_summary             |-> sections.has_summary,
   has_skills              |-> sections.has_skills,
   has_experience          |-> sections.has_experience,
   has_projects            |-> sections.has_projects,
   has_education           |-> sections.has_education,
   quantified_bullet_count |-> quantified_count,
   total_bullet_count      |-> total_count]

analyze_cv(cv_text, jd_text) ==
  LET sections == detect_sections(cv_text)
      counts   == count_quantified_bullets(cv_text)
  IN  RuleBasedResult(sections, counts[1], counts[2])

----------------------------------------------------------------------------
(* Invocations. Every request handler calls the functions on its own       *)
(* arguments; frames[p] holds the arguments and the local variables of the *)
(* call that caller p is running, and pc the place the call has reached.   *)

NumProcs == 2

Procs == 1..NumProcs

NoSections ==
  [has_summary |-> FALSE, has_skills |-> FALSE, has_experience |-> FALSE,
   has_projects |-> FALSE, has_education |-> FALSE]

IdleFrame ==
  [op |-> "none", pc |-> "idle",
   text |-> None, top_n |-> 0, jd_keywords |-> <<>>, jd_text |-> None,
   words |-> <<>>, i |-> 0, keywords |-> <<>>, seen |-> {},
   cv_lower |-> <<>>, matched |-> <<>>, missing |-> <<>>,
   bullets |-> <<>>, quantified_count |-> 0, total_count |-> 0,
   sections |-> NoSections]

\* The first statement of each function.
Entry(op) ==
  CASE op = "extract_keywords"         -> "ek_begin"
    [] op = "compare_keywords"         -> "ck_begin"
    [] op = "count_quantified_bullets" -> "cq_begin"
    [] op = "detect_sections"          -> "ds_body"
    [] op = "analyze_cv"               -> "ac_begin"

\* The arguments of a call.
Args(f) ==
  [op |-> f.op, text |-> f.text, top_n |-> f.top_n,
   jd_keywords |-> f.jd_keywords, jd_text |-> f.jd_text]

\* The value a finished call has returned.
Ret(f) ==
  CASE f.op = "extract_keywords"         -> f.keywords
    [] f.op = "compare_keywords"         -> <<f.matched, f.missing>>
    [] f.op = "count_quantified_bullets" -> <<f.quantified_count, f.total_count>>
    [] f.op = "detect_sections"          -> f.sections
    [] f.op = "analyze_cv"               ->
         RuleBasedResult(f.sections, f.quantified_count, f.total_count)

Returned(p, op) == frames[p].op = op /\ frames[p].pc = "done"

\* Caller p, running no call, invokes a function with the arguments in: a
\* new frame with the arguments bound.
Call(p, in) ==
  /\ frames[p].pc \in {"idle", "done"}
  /\ frames' = [frames EXCEPT ![p] =
        [IdleFrame EXCEPT !.op = in.op, !.pc = Entry(in.op),
                          !.text = in.text, !.top_n = in.top_n,
                          !.jd_keywords = in.jd_keywords,
                          !.jd_text = in.jd_text]]

\* ExtractKeywordsBegin with seen kept in one set that all calls share
\* (a module-level set, or a mutable default argument).
ExtractKeywordsBeginSharedSeen(p) ==
  LET f == frames[p]
  IN  /\ f.pc = "ek_begin"
      /\ frames' = [frames EXCEPT ![p] =
            IF ~Truthy(f.text)
              THEN [f EXCEPT !.keywords = <<>>, !.pc = "done"]
              ELSE [f EXCEPT !.words = word_findall(lower(f.text.str), 0),
                             !.keywords = <<>>,
                             !.seen = UNION {frames[q].seen : q \in Procs},
                             !.i = 1, !.pc = "ek_loop"]]

\* ExtractKeywordsBegin without the guard "if not text": text.lower() on
\* None raises AttributeError, and the call ends with an exception.
ExtractKeywordsBeginNoGuard(p) ==
  LET f == frames[p]
  IN  /\ f.pc = "ek_begin"
      /\ frames' = [frames EXCEPT ![p] =
            IF f.text.is_none
              THEN [f EXCEPT !.pc = "raised"]
              ELSE [f EXCEPT !.words = word_findall(lower(f.text.str), 0),
                             !.keywords = <<>>, !.seen = {}, !.i = 1,
                             !.pc = "ek_loop"]]

\* extract_keywords up to the loop: the guard on text, the tokens, and the
\* two fresh locals keywords and seen.
ExtractKeywordsBegin(p) ==
  LET f == frames[p]
  IN  /\ f.pc = "ek_begin"
      /\ frames' = [frames EXCEPT ![p] =
            IF ~Truthy(f.text)
              THEN [f EXCEPT !.keywords = <<>>, !.pc = "done"]
              ELSE [f EXCEPT !.words = word_findall(lower(f.text.str), 0),
                             !.keywords = <<>>, !.seen = {}, !.i = 1,
                             !.pc = "ek_loop"]]

\* One iteration of the loop of extract_keywords, or its end and the
\* return of keywords.
ExtractKeywordsLoop(p) ==
  LET f == frames[p]
      b == KeywordLoopBody(f.keywords, f.seen, f.words[f.i], f.top_n)
  IN  /\ f.pc = "ek_loop"
      /\ frames' = [frames EXCEPT ![p] =
            IF f.i > Len(f.words) THEN [f EXCEPT !.pc = "done"]
            ELSE [f EXCEPT !.keywords = b.keywords, !.seen = b.seen,
                           !.i = f.i + 1,
                           !.pc = IF b.break THEN "done" ELSE "ek_loop"]]

\* compare_keywords up to the loop.
CompareKeywordsBegin(p) ==
  LET f == frames[p]
  IN  /\ f.pc = "ck_begin"
      /\ frames' = [frames EXCEPT ![p] =
            [f EXCEPT !.cv_lower = lower(f.text.str),
                      !.matched = <<>>, !.missing = <<>>, !.i = 1,
                      !.pc = "ck_loop"]]

\* One iteration of the loop of compare_keywords, or its end and the
\* return of (matched, missing).
CompareKeywordsLoop(p) ==
  LET f == frames[p]
      b == MatchLoopBody(f.matched, f.missing, f.jd_keywords[f.i], f.cv_lower)
  IN  /\ f.pc = "ck_loop"
      /\ frames' = [frames EXCEPT ![p] =
            IF f.i > Len(f.jd_keywords) THEN [f EXCEPT !.pc = "done"]
            ELSE [f EXCEPT !.matched = b.matched, !.missing = b.missing,
                           !.i = f.i + 1]]

\* count_quantified_bullets up to the loop: the bullets and their number.
CountBulletsBegin(p) ==
  LET f == frames[p]
      bullets == bullet_findall(f.text.str, 0)
  IN  /\ f.pc = "cq_begin"
      /\ frames' = [frames EXCEPT ![p] =
            [f EXCEPT !.bullets = bullets, !.total_count = Len(bullets),
                      !.quantified_count = 0, !.i = 1, !.pc = "cq_loop"]]

\* One iteration of the loop of count_quantified_bullets, or its end and
\* the return of (quantified_count, total_count), to analyze_cv when
\* analyze_cv made the call.
CountBulletsLoop(p) ==
  LET f == frames[p]
  IN  /\ f.pc = "cq_loop"
      /\ frames' = [frames EXCEPT ![p] =
            IF f.i > Len(f.bullets)
              THEN [f EXCEPT !.pc = IF f.op = "analyze_cv" THEN "ac_return"
                                                           ELSE "done"]
              ELSE [f EXCEPT !.quantified_count =
                                QuantLoopBody(f.quantified_count, f.bullets[f.i]),
                             !.i = f.i + 1]]

\* detect_sections: one expression over the lowercased text.
DetectSections(p) ==
  LET f == frames[p]
  IN  /\ f.pc = "ds_body"
      /\ frames' = [frames EXCEPT ![p] =
            [f EXCEPT !.sections = detect_sections(f.text.str), !.pc = "done"]]

\* AnalyzeCvBegin with the sections detected in the job description when
\* one is given.
AnalyzeCvBeginSectionsOfJd(p) ==
  LET f == frames[p]
  IN  /\ f.pc = "ac_begin"
      /\ frames' = [frames EXCEPT ![p] =
            [f EXCEPT !.sections =
                        IF Truthy(f.jd_text)
                          THEN detect_sections(f.jd_text.str)
                          ELSE detect_sections(f.text.str),
                      !.pc = "cq_begin"]]

\* analyze_cv: sections = detect_sections(cv_text), then the call of
\* count_quantified_bullets(cv_text).
AnalyzeCvBegin(p) ==
  LET f == frames[p]
  IN  /\ f.pc = "ac_begin"
      /\ frames' = [frames EXCEPT ![p] =
            [f EXCEPT !.sections = detect_sections(f.text.str),
                      !.pc = "cq_begin"]]

\* analyze_cv: the RuleBasedResult is built from the two results and
\* returned.
AnalyzeCvReturn(p) ==
  LET f == frames[p]
  IN  /\ f.pc = "ac_return"
      /\ frames' = [frames EXCEPT ![p] = [f EXCEPT !.pc = "done"]]

----------------------------------------------------------------------------
(* The arguments the calls are made with: texts put together from pieces   *)
(* that bring about the cases of each function, and the scenarios of the   *)
(* documentation.                                                          *)

MaxKeywordPieces == 3

MaxTopN == 5

MaxMatchPieces == 2

MaxKeywords == 3

MaxLines == 3

MaxQuantPieces == 3

MaxSectionPieces == 3

MaxAnalyzePieces == 2

\* The texts made of at most n pieces.
RECURSIVE PieceTexts(_, _)
PieceTexts(pieces, n) ==
  IF n = 0 THEN {<<>>}
  ELSE LET shorter == PieceTexts(pieces, n - 1)
       IN  shorter \cup {t \o piece : t \in shorter, piece \in pieces}

\* The texts of at least one and at most n lines.
RECURSIVE LineTexts(_, _)
LineTexts(lines, n) ==
  IF n = 1 THEN lines
  ELSE LET shorter == LineTexts(lines, n - 1)
       IN  shorter \cup {t \o <<NL>> \o line : t \in shorter, line \in lines}

\* The lists of at most n elements of vocabulary.
RECURSIVE ListsUpTo(_, _)
ListsUpTo(vocabulary, n) ==
  IF n = 0 THEN {<<>>}
  ELSE LET shorter == ListsUpTo(vocabulary, n - 1)
       IN  shorter \cup {Append(l, w) : l \in shorter, w \in vocabulary}

Input(op, text, top_n, jd_keywords, jd_text) ==
  [op |-> op, text |-> text, top_n |-> top_n,
   jd_keywords |-> jd_keywords, jd_text |-> jd_text]

KeywordPieces ==
  {<<"c", "a", "t">>, <<"D", "o", "g", "-">>, <<"s", "a", "t", " ">>, <<"t", "h", "e", " ">>, <<"o", "n", " ">>, <<"3">>, <<"_">>, <<EACUTE>>}

KeywordScenario == <<"T", "h", "e", " ", "c", "a", "t", " ", "s", "a", "t", " ", "o", "n", " ", "t", "h", "e", " ", "m", "a", "t", " ", "a", "n", "d", " ", "t", "h", "e", " ", "d", "o", "g", " ", "r", "a", "n">>

KeywordTexts ==
  PieceTexts(KeywordPieces, MaxKeywordPieces) \cup {KeywordScenario}

\* A call of extract_keywords on None or a text, with a limit.
CallExtractKeywords(p) ==
  \E text \in {None} \cup {Some(t) : t \in KeywordTexts} :
    \E top_n \in 0..MaxTopN :
       Call(p, Input("extract_keywords", text, top_n, <<>>, None))

MatchPieces == {<<"P", "y", "t", "h", "o", "n", " ">>, <<"j", "a", "v", "a">>, <<"s", "c", "r", "i", "p", "t", " ">>}

MatchScenarioText == <<"I", " ", "u", "s", "e", " ", "P", "y", "t", "h", "o", "n", " ", "a", "n", "d", " ", "R", "e", "a", "c", "t", " ", "d", "a", "i", "l", "y">>

MatchScenarioKeywords == <<<<"p", "y", "t", "h", "o", "n">>, <<"j", "a", "v", "a">>, <<"r", "e", "a", "c", "t">>>>

MatchVocabulary == {<<"p", "y", "t", "h", "o", "n">>, <<"P", "y", "t", "h", "o", "n">>, <<"j", "a", "v", "a">>, <<"r", "e", "a", "c", "t">>}

MatchTexts == PieceTexts(MatchPieces, MaxMatchPieces) \cup {MatchScenarioText}

KeywordLists ==
  ListsUpTo(MatchVocabulary, MaxKeywords) \cup {MatchScenarioKeywords}

\* A call of compare_keywords on a text and a list of keywords.
CallCompareKeywords(p) ==
  \E t \in MatchTexts :
    \E k \in KeywordLists :
       Call(p, Input("compare_keywords", Some(t), 0, k, None))

BulletLines ==
  {<<>>, <<"-">>, <<"-", " ">>, <<"f", "o", "o">>, <<"-", " ", "f", "o", "o">>, <<" ", "*", "5", "x", "5", "%">>, <<"-", "-">>, <<BULLET, TAB>>}

QuantPieces ==
  {<<"1", "0">>, <<"%">>, <<"+">>, <<"x">>, <<",">>, <<" ">>, <<TAB>>, <<"e", "n", "g">>, <<"X">>}

BulletScenarios ==
  {<<"-", " ", "I", "m", "p", "r", "o", "v", "e", "d", " ", "l", "a", "t", "e", "n", "c", "y", " ", "b", "y", " ", "4", "0", "%", NL, "-", " ", "H", "e", "l", "p", "e", "d", " ", "t", "e", "a", "m">>,
   <<"*", " ", "L", "e", "d", " ", "a", " ", "t", "e", "a", "m", " ", "o", "f", " ", "1", "0", " ", "e", "n", "g", "i", "n", "e", "e", "r", "s">>}

BulletTexts ==
  LineTexts(BulletLines, MaxLines)
    \cup {<<WBULLET, " ">> \o t : t \in PieceTexts(QuantPieces, MaxQuantPieces)}
    \cup BulletScenarios

\* A call of count_quantified_bullets on a text.
CallCountBullets(p) ==
  \E t \in BulletTexts :
     Call(p, Input("count_quantified_bullets", Some(t), 0, <<>>, None))

SectionPieces ==
  {<<"M", "y", " ">>, <<"S", "k", "i", "l", "l", "s">>, <<"a", "b", "o", "u", "t">>, <<" ", "m", "e">>, <<"m", "i", "s", "E", "d", "u", "c", "a", "t", "i", "o", "n">>, <<"W", "o", "r", "k">>,
   <<" ", "h", "i", "s", "t", "o", "r", "y">>, <<"p", "r", "o", "j", "e", "c", "t", "s">>}

SectionScenario == <<"M", "y", " ", "S", "k", "i", "l", "l", "s", ":", " ", "P", "y", "t", "h", "o", "n", ",", " ", "G", "o">>

SectionTexts ==
  PieceTexts(SectionPieces, MaxSectionPieces) \cup {SectionScenario}

\* A call of detect_sections on a text.
CallDetectSections(p) ==
  \E t \in SectionTexts :
     Call(p, Input("detect_sections", Some(t), 0, <<>>, None))

AnalyzePieces ==
  {<<"S", "u", "m", "m", "a", "r", "y">>, <<NL>>, <<"-", " ", "l", "e", "d", " ", "1", "0", " ", "e", "n", "g">>, <<"-", " ", "f", "o", "o">>, <<"-", NL>>, <<"C", "o", "l", "l", "e", "g", "e", " ">>}

AnalyzeJdTexts == {None, Some(<<>>), Some(<<"c", "a", "t">>)}

AnalyzeTexts == PieceTexts(AnalyzePieces, MaxAnalyzePieces)

\* A call of analyze_cv on a text, with or without a job description.
CallAnalyzeCv(p) ==
  \E t \in AnalyzeTexts :
    \E jd \in AnalyzeJdTexts :
       Call(p, Input("analyze_cv", Some(t), 0, <<>>, jd))

\* The calls that concurrent request handlers make at the same time.
ConcurrentCalls ==
  {Input("extract_keywords", Some(<<"c", "a", "t", " ", "D", "o", "g", " ", "c", "a", "t", " ", "s", "a", "t", " ">>), 2, <<>>, None),
   Input("extract_keywords", Some(<<"D", "o", "g", " ", "c", "a", "t">>), 2, <<>>, None),
   Input("compare_keywords", Some(<<"P", "y", "t", "h", "o", "n", " ", "j", "a", "v", "a">>), 0,
         <<<<"p", "y", "t", "h", "o", "n">>, <<"r", "e", "a", "c", "t">>, <<"P", "y", "t", "h", "o", "n">>>>, None),
   Input("count_quantified_bullets", Some(<<"-", " ", "1", "0", " ", "e", "n", "g", NL, "-", " ", "f", "o", "o">>), 0, <<>>, None),
   Input("detect_sections", Some(<<"M", "y", " ", "S", "k", "i", "l", "l", "s">>), 0, <<>>, None),
   Input("analyze_cv", Some(<<"S", "u", "m", "m", "a", "r", "y", NL, "-", " ", "5", "x">>), 0, <<>>, None),
   Input("analyze_cv", Some(<<"S", "u", "m", "m", "a", "r", "y", NL, "-", " ", "5", "x">>), 0, <<>>, Some(<<"c", "a", "t">>))}

----------------------------------------------------------------------------
(* The request pipeline (backend/app/main.py, analyze_cv_endpoint) and the  *)
(* feedback provider (backend/app/services/llm_client.py).  One request is  *)
(* followed from its arrival to its answer; the collaborators outside the   *)
(* repository (the PDF and DOCX parsers, the Gemini API) answer in any way. *)

\* config.py: ALLOWED_EXTENSIONS and MAX_FILE_SIZE.
ALLOWED_EXTENSIONS == {<<".", "p", "d", "f">>, <<".", "d", "o", "c", "x">>}

MAX_FILE_SIZE == 10 * 1024 * 1024

\* s[:n] of Python, n >= 0.
Slice(s, n) == IF n < Len(s) THEN SubSeq(s, 1, n) ELSE s

\* s.endswith(suffix)
endswith(s, suffix) ==
  /\ Len(suffix) <= Len(s)
  /\ SubSeq(s, Len(s) - Len(suffix) + 1, Len(s)) = suffix

\* s.strip(): the whitespace at both ends removed.
strip(s) ==
  LET inner == {k \in 1..Len(s) : s[k] \notin SpaceChars}
  IN  IF inner = {} THEN <<>>
      ELSE SubSeq(s, CHOOSE a \in inner : \A k \in inner : a <= k,
                     CHOOSE b \in inner : \A k \in inner : k <= b)

\* main.py: filename.lower().split('.')[-1] if '.' in filename else "".
file_ext(filename) ==
  LET low  == lower(filename)
      dots == {k \in 1..Len(low) : low[k] = "."}
  IN  IF dots = {} THEN <<>>
      ELSE SubSeq(low, (CHOOSE d \in dots : \A k \in dots : k <= d) + 1,
                  Len(low))

\* main.py: f".{file_ext}" in ALLOWED_EXTENSIONS.
AllowedType(filename) == (<<".">> \o file_ext(filename)) \in ALLOWED_EXTENSIONS

\* cv_extraction.py, extract_cv_text: the parser chosen by the filename,
\* or "ValueError" for a filename that ends in neither extension.
Parser(filename) ==
  LET filename_lower == lower(filename)
  IN  IF endswith(filename_lower, <<".", "p", "d", "f">>) THEN "pdf"
      ELSE IF endswith(filename_lower, <<".", "d", "o", "c", "x">>) THEN "docx"
      ELSE "ValueError"

\* Exceptions: kind is the class, status_code and detail are those of an
\* HTTPException.
NoException == [kind |-> "none", status_code |-> 0, detail |-> "none"]

HTTPException(status_code, detail) ==
  [kind |-> "HTTPException", status_code |-> status_code, detail |-> detail]

Raised(kind) == [kind |-> kind, status_code |-> 0, detail |-> "none"]

\* main.py, the handlers of the outer try: an HTTPException is raised
\* again as it is, any other exception becomes an HTTPException 500.
ExceptionResponseAlways500(exc) == HTTPException(500, "unexpected")

ExceptionResponse(exc) ==
  IF exc.kind = "HTTPException" THEN exc
  ELSE HTTPException(500, "unexpected")

\* models.py, JDKeywordAnalysis, as the Optional field jd_analysis.
NoJdAnalysis ==
  [is_none |-> TRUE, jd_keywords |-> <<>>, matched_keywords |-> <<>>,
   missing_keywords |-> <<>>]

JDKeywordAnalysis(jd_keywords, matched_keywords, missing_keywords) ==
  [is_none |-> FALSE, jd_keywords |-> jd_keywords,
   matched_keywords |-> matched_keywords,
   missing_keywords |-> missing_keywords]

\* models.py, CVSectionChecklist built from the flags of a RuleBasedResult.
CVSectionChecklist(has_summary, has_skills, has_experience, has_projects, has_education) ==
  [has_summary    |-> has_summary,
   has_skills     |-> has_skills,
   has_experience |-> has_experience,
   has_projects   |-> has_projects,
   has_education  |-> has_education]

\* One entry of strengths or weaknesses: the sentence is named by a tag,
\* n is the number the sentence prints (0 when it prints none).
Remark(tag, n) == [tag |-> tag, n |-> n]

\* models.py, CVAnalysisResponse.  source tells which provider wrote the
\* narrative; the narrative fields other than strengths and weaknesses are
\* left out.
NoResponse ==
  [source |-> "none", language |-> "none", strengths |-> <<>>,
   weaknesses |-> <<>>, section_checklist |-> NoSections,
   jd_analysis |-> NoJdAnalysis]

CVAnalysisResponse(source, language, strengths, weaknesses, section_checklist, jd_analysis) ==
  [source |-> source, language |-> language, strengths |-> strengths,
   weaknesses |-> weaknesses, section_checklist |-> section_checklist,
   jd_analysis |-> jd_analysis]

\* <<x>> when the condition holds: the "if c: list.append(x)" of Python.
AppendIf(c, x) == IF c THEN <<x>> ELSE <<>>

\* _generate_gemini_feedback with every keyword list passed on whole.
GeminiJdAnalysisUncut(cv_text, jd_text) ==
  IF Truthy(jd_text)
    THEN LET jd_keywords == extract_keywords(jd_text, 20)
             result      == compare_keywords(cv_text, jd_keywords)
         IN  JDKeywordAnalysis(jd_keywords, result[1], result[2])
    ELSE NoJdAnalysis

\* _generate_gemini_feedback: jd_analysis, computed when jd_text is truthy.
GeminiJdAnalysis(cv_text, jd_text) ==
  IF Truthy(jd_text)
    THEN LET jd_keywords == extract_keywords(jd_text, 20)
             result      == compare_keywords(cv_text, jd_keywords)
         IN  JDKeywordAnalysis(Slice(jd_keywords, 15),
                               Slice(result[1], 10),
                               Slice(result[2], 10))
    ELSE NoJdAnalysis

\* _generate_gemini_feedback: section_checklist.
GeminiSectionChecklist(rule_based_result) ==
  CVSectionChecklist(rule_based_result.has_summary,
                     rule_based_result.has_skills,
                     rule_based_result.has_experience,
                     rule_based_result.has_projects,
                     rule_based_result.has_education)

\* _generate_gemini_feedback, when the API answers, the answer is JSON and
\* fits the schema: the narrative is the model's, section_checklist and
\* jd_analysis are computed.
GeminiFeedbackResponse(cv_text, jd_text, rule_based_result, language) ==
  CVAnalysisResponse("gemini", language,
                     <<Remark("generated", 0)>>, <<Remark("generated", 0)>>,
                     GeminiSectionChecklist(rule_based_result),
                     GeminiJdAnalysis(cv_text, jd_text))

\* _generate_mock_feedback with matched and missing cut to the length of
\* jd_keywords.
MockJdAnalysisWideLists(cv_text, jd_text) ==
  IF Truthy(jd_text)
    THEN LET jd_keywords == extract_keywords(jd_text, 20)
             result      == compare_keywords(cv_text, jd_keywords)
         IN  JDKeywordAnalysis(Slice(jd_keywords, 15),
                               Slice(result[1], 15),
                               Slice(result[2], 15))
    ELSE NoJdAnalysis

\* _generate_mock_feedback with the test "if jd_text is not None".
MockJdAnalysisNotNone(cv_text, jd_text) ==
  IF ~jd_text.is_none
    THEN LET jd_keywords == extract_keywords(jd_text, 20)
             result      == compare_keywords(cv_text, jd_keywords)
         IN  JDKeywordAnalysis(Slice(jd_keywords, 15),
                               Slice(result[1], 10),
                               Slice(result[2], 10))
    ELSE NoJdAnalysis

\* _generate_mock_feedback: jd_analysis, computed when jd_text is truthy.
MockJdAnalysis(cv_text, jd_text) ==
  IF Truthy(jd_text)
    THEN LET jd_keywords == extract_keywords(jd_text, 20)
             result      == compare_keywords(cv_text, jd_keywords)
         IN  JDKeywordAnalysis(Slice(jd_keywords, 15),
                               Slice(result[1], 10),
                               Slice(result[2], 10))
    ELSE NoJdAnalysis

\* _generate_mock_feedback: section_checklist.
MockSectionChecklist(rule_based_result) ==
  CVSectionChecklist(rule_based_result.has_summary,
                     rule_based_result.has_skills,
                     rule_based_result.has_experience,
                     rule_based_result.has_projects,
                     rule_based_result.has_education)

\* MockStrengths with the quantification strength given from two
\* quantified bullets on.
MockStrengthsFromTwo(rule_based_result, jd_analysis) ==
  LET strengths ==
        AppendIf(rule_based_result.has_education, Remark("education", 0))
        \o AppendIf(rule_based_result.has_experience, Remark("experience", 0))
        \o AppendIf(rule_based_result.has_projects, Remark("projects", 0))
        \o AppendIf(rule_based_result.quantified_bullet_count >= 2,
                    Remark("quantified", 0))
        \o AppendIf(/\ ~jd_analysis.is_none
                    /\ Len(jd_analysis.matched_keywords) > 5,
                    Remark("keyword_match",
                           Len(jd_analysis.matched_keywords)))
  IN  IF Len(strengths) < 3
        THEN strengths \o <<Remark("structured", 0), Remark("technical", 0)>>
        ELSE strengths

\* _generate_mock_feedback: strengths before the cut to five.  The branch
\* of "vi" and the branch of every other language append under the same
\* conditions and differ in the wording.
MockStrengths(rule_based_result, jd_analysis) ==
  LET strengths ==
        AppendIf(rule_based_result.has_education, Remark("education", 0))
        \o AppendIf(rule_based_result.has_experience, Remark("experience", 0))
        \o AppendIf(rule_based_result.has_projects, Remark("projects", 0))
        \o AppendIf(rule_based_result.quantified_bullet_count > 2,
                    Remark("quantified", 0))
        \o AppendIf(/\ ~jd_analysis.is_none
                    /\ Len(jd_analysis.matched_keywords) > 5,
                    Remark("keyword_match",
                           Len(jd_analysis.matched_keywords)))
  IN  IF Len(strengths) < 3
        THEN strengths \o <<Remark("structured", 0), Remark("technical", 0)>>
        ELSE strengths

\* _generate_mock_feedback: weaknesses before the cut to five.
MockWeaknesses(rule_based_result, jd_analysis) ==
  LET weaknesses ==
        AppendIf(~rule_based_result.has_summary, Remark("no_summary", 0))
        \o AppendIf(~rule_based_result.has_skills, Remark("no_skills", 0))
        \o AppendIf(~rule_based_result.has_projects, Remark("no_projects", 0))
        \o AppendIf(rule_based_result.quantified_bullet_count < 3,
                    Remark("not_quantified", 0))
        \o AppendIf(/\ ~jd_analysis.is_none
                    /\ Len(jd_analysis.missing_keywords) > 5,
                    Remark("keywords_missing",
                           Len(jd_analysis.missing_keywords)))
  IN  IF Len(weaknesses) < 3
        THEN weaknesses \o <<Remark("action", 0), Remark("formatting", 0)>>
        ELSE weaknesses

\* _generate_mock_feedback
MockFeedbackResponse(cv_text, jd_text, rule_based_result, language) ==
  LET jd_analysis == MockJdAnalysis(cv_text, jd_text)
  IN  CVAnalysisResponse("mock", language,
                         Slice(MockStrengths(rule_based_result, jd_analysis), 5),
                         Slice(MockWeaknesses(rule_based_result, jd_analysis), 5),
                         MockSectionChecklist(rule_based_result),
                         jd_analysis)

\* generate_ai_feedback with "except json.JSONDecodeError" around the call
\* of _generate_gemini_feedback.
FallbackCatchesJsonOnly(kind) == kind = "JSONDecodeError"

\* generate_ai_feedback: "except Exception" around the call of
\* _generate_gemini_feedback catches every failure of it.
FallbackCatches(kind) == kind \in {"APIError", "JSONDecodeError", "ValidationError"}

\* The request being served: the locals of analyze_cv_endpoint (filename,
\* size of file_content, jd_text, cv_text, rule_based_result), those of
\* generate_ai_feedback (language), the pending exception, and what has
\* happened so far: the collaborators invoked, how the extraction and the
\* Gemini call ended, and the answer (HTTP status, detail, response body).
\* entry is "endpoint" for a request to analyze_cv_endpoint and "direct"
\* for a call of generate_ai_feedback by itself.
IdleRequest ==
  [pc |-> "idle", entry |-> "none",
   filename |-> None, size |-> 0, jd_text |-> None, language |-> "en",
   cv_text |-> <<>>, rule_based_result |-> RuleBasedResult(NoSections, 0, 0),
   exc |-> NoException,
   invoked |-> {}, extraction |-> "none", gemini |-> "none",
   status |-> 0, detail |-> "none", response |-> NoResponse]

\* A request arrives at analyze_cv_endpoint.
ReceiveRequest(filename, size, jd_text) ==
  /\ request.pc = "idle"
  /\ request' = [request EXCEPT !.pc = "validate_type", !.entry = "endpoint",
                                !.filename = filename, !.size = size,
                                !.jd_text = jd_text]
  /\ UNCHANGED use_gemini_api

\* generate_ai_feedback is called by itself.
CallGenerateAiFeedback(cv_text, jd_text, rule_based_result, language) ==
  /\ request.pc = "idle"
  /\ request' = [request EXCEPT !.pc = "feedback", !.entry = "direct",
                                !.cv_text = cv_text, !.jd_text = jd_text,
                                !.rule_based_result = rule_based_result,
                                !.language = language]
  /\ UNCHANGED use_gemini_api

\* analyze_cv_endpoint: the check of the file type.
ValidateFileType ==
  LET filename == IF Truthy(request.filename) THEN request.filename.str
                  ELSE <<>>
  IN  /\ request.pc = "validate_type"
      /\ request' =
           IF ~AllowedType(filename)
             THEN [request EXCEPT !.pc = "except",
                     !.exc = HTTPException(400, "unsupported_type")]
             ELSE [request EXCEPT !.pc = "read"]
      /\ UNCHANGED use_gemini_api

\* analyze_cv_endpoint: file_content is read and its size checked.
ReadAndValidateSize ==
  /\ request.pc = "read"
  /\ request' =
       IF request.size > MAX_FILE_SIZE
         THEN [request EXCEPT !.pc = "except",
                 !.exc = HTTPException(400, "too_large")]
         ELSE [request EXCEPT !.pc = "extract"]
  /\ UNCHANGED use_gemini_api

\* ExtractText with a failed extraction answered by the analysis of an
\* empty text.
ExtractTextOrEmpty(texts) ==
  LET filename == IF Truthy(request.filename) THEN request.filename.str
                  ELSE <<>>
  IN  /\ request.pc = "extract"
      /\ \/ request' = [request EXCEPT !.pc = "analyze",
                          !.invoked = @ \cup {"extract_cv_text"},
                          !.extraction = "raised", !.cv_text = <<>>]
         \/ /\ Parser(filename) # "ValueError"
            /\ \E cv_text \in texts :
                  request' = [request EXCEPT !.pc = "validate_text",
                                !.invoked = @ \cup {"extract_cv_text"},
                                !.extraction = "returned",
                                !.cv_text = cv_text]
      /\ UNCHANGED use_gemini_api

\* analyze_cv_endpoint: extract_cv_text(file_content, filename) inside its
\* own try.  The call raises ValueError for a filename with neither
\* extension; the parser it chooses returns a text or raises.  Whatever is
\* raised is answered by raise HTTPException(500).
ExtractText(texts) ==
  LET filename == IF Truthy(request.filename) THEN request.filename.str
                  ELSE <<>>
  IN  /\ request.pc = "extract"
      /\ \/ request' = [request EXCEPT !.pc = "except",
                          !.invoked = @ \cup {"extract_cv_text"},
                          !.extraction = "raised",
                          !.exc = HTTPException(500, "extract_failed")]
         \/ /\ Parser(filename) # "ValueError"
            /\ \E cv_text \in texts :
                  request' = [request EXCEPT !.pc = "validate_text",
                                !.invoked = @ \cup {"extract_cv_text"},
                                !.extraction = "returned",
                                !.cv_text = cv_text]
      /\ UNCHANGED use_gemini_api

\* analyze_cv_endpoint: the check that the text is meaningful.
ValidateText ==
  /\ request.pc = "validate_text"
  /\ request' =
       IF request.cv_text = <<>> \/ Len(strip(request.cv_text)) < 50
         THEN [request EXCEPT !.pc = "except",
                 !.exc = HTTPException(400, "no_text")]
         ELSE [request EXCEPT !.pc = "analyze"]
  /\ UNCHANGED use_gemini_api

\* analyze_cv_endpoint: rule_based_result = analyze_cv(cv_text, jd_text).
RunAnalyzeCv ==
  /\ request.pc = "analyze"
  /\ request' = [request EXCEPT !.pc = "feedback",
                   !.invoked = @ \cup {"analyze_cv"},
                   !.rule_based_result =
                      analyze_cv(request.cv_text, request.jd_text)]
  /\ UNCHANGED use_gemini_api

\* generate_ai_feedback is entered: Gemini when it is configured, the mock
\* otherwise.
GenerateAiFeedback ==
  /\ request.pc = "feedback"
  /\ request' = [request EXCEPT
                   !.pc = IF use_gemini_api THEN "gemini" ELSE "mock",
                   !.invoked = @ \cup {"generate_ai_feedback"}]
  /\ UNCHANGED use_gemini_api

\* Where a request goes on when generate_ai_feedback returns.
AfterFeedback == IF request.entry = "endpoint" THEN "respond" ELSE "done"

\* _generate_gemini_feedback inside the try of generate_ai_feedback: the
\* API call raises, the answer is not JSON, the JSON does not fit the
\* schema, or a response is returned.  A failure the except clause catches
\* leads to the mock; any other would leave generate_ai_feedback.
GeminiFeedback ==
  /\ request.pc = "gemini"
  /\ \/ request' = [request EXCEPT !.pc = AfterFeedback, !.gemini = "ok",
                      !.response =
                         GeminiFeedbackResponse(request.cv_text,
                            request.jd_text, request.rule_based_result,
                            request.language)]
     \/ \E kind \in {"APIError", "JSONDecodeError", "ValidationError"} :
           request' =
             IF FallbackCatches(kind)
               THEN [request EXCEPT !.pc = "mock", !.gemini = kind]
               ELSE IF request.entry = "endpoint"
                 THEN [request EXCEPT !.pc = "except", !.gemini = kind,
                                      !.exc = Raised(kind)]
                 ELSE [request EXCEPT !.pc = "raised", !.gemini = kind,
                                      !.exc = Raised(kind)]
  /\ UNCHANGED use_gemini_api

\* generate_ai_feedback: return _generate_mock_feedback(...).
MockFeedback ==
  /\ request.pc = "mock"
  /\ request' = [request EXCEPT !.pc = AfterFeedback,
                   !.response =
                      MockFeedbackResponse(request.cv_text, request.jd_text,
                         request.rule_based_result, request.language)]
  /\ UNCHANGED use_gemini_api

\* analyze_cv_endpoint: return response.
ReturnResponse ==
  /\ request.pc = "respond"
  /\ request' = [request EXCEPT !.pc = "done", !.status = 200]
  /\ UNCHANGED use_gemini_api

\* analyze_cv_endpoint: the except clauses of the outer try; the framework
\* answers with the status and the detail of the HTTPException raised.
HandleException ==
  LET answer == ExceptionResponse(request.exc)
  IN  /\ request.pc = "except"
      /\ request' = [request EXCEPT !.pc = "done", !.exc = answer,
                       !.status = answer.status_code,
                       !.detail = answer.detail,
                       !.response = NoResponse]
      /\ UNCHANGED use_gemini_api

MaxNamePieces == 2

MaxJdWords == 21

Alphabet ==
  <<"a", "b", "c", "d", "e", "f", "g", "h", "i", "j", "k", "l", "m",
    "n", "o", "p", "q", "r", "s", "t", "u", "v", "w", "x", "y", "z">>

\* Distinct keywords kaa, kab, kac, ...
JdWord(n) == <<"k", "a", Alphabet[n]>>

\* The words lo..hi, each followed by a space.
RECURSIVE WordsText(_, _)
WordsText(lo, hi) ==
  IF lo > hi THEN <<>> ELSE JdWord(lo) \o <<" ">> \o WordsText(lo + 1, hi)

NamePieces ==
  {<<"c", "v">>, <<".">>, <<"c", "v", ".">>, <<"p", "d", "f">>, <<"D", "o", "c", "x">>, <<"t", "x", "t">>}

\* Filenames of uploads, the missing filename included.
Filenames == {None} \cup {Some(n) : n \in PieceTexts(NamePieces, MaxNamePieces)}

\* Sizes of file_content, in bytes.
FileSizes == {1024, MAX_FILE_SIZE, MAX_FILE_SIZE + 1}

\* Job descriptions: none, empty, blank, and texts of 2, 16 and MaxJdWords
\* distinct keywords.
PipelineJdTexts ==
  {None, Some(<<>>), Some(<<" ">>)}
    \cup {Some(WordsText(1, n)) : n \in {2, 16, MaxJdWords}}

\* A CV of 57 characters with two sections and three quantified bullets.
CvHeader ==
  <<"S", "u", "m", "m", "a", "r", "y", NL, "-", " ", "l", "e", "d", " ", "1", "0", " ", "e", "n", "g", NL, "-", " ", "c", "u", "t", " ", "c", "o", "s", "t", " ", "5", "%", NL, "-", " ", "b", "u", "i", "l", "t", " ", "3", "x", " ", "a", "p", "i", NL, "S", "k", "i", "l", "l", "s", " ">>

\* Texts the parsers return: empty, too short, 49 and 50 characters long,
\* 50 characters of which 49 remain after strip(), and CVs that hold some
\* of the keywords of the job descriptions.
ExtractedTexts ==
  {<<>>, <<"S", "u", "m", "m", "a", "r", "y">>, SubSeq(CvHeader, 1, 49), SubSeq(CvHeader, 1, 50),
   <<" ">> \o SubSeq(CvHeader, 1, 49)}
    \cup {CvHeader \o WordsText(r[1], r[2]) :
            r \in {<<1, 0>>, <<18, 18>>, <<1, 12>>, <<10, MaxJdWords>>}}

AllSections ==
  [has_summary |-> TRUE, has_skills |-> TRUE, has_experience |-> TRUE,
   has_projects |-> TRUE, has_education |-> TRUE]

\* Rule-Based Results handed to generate_ai_feedback with a text: the one
\* analyze_cv computes for it, and records with no and with every section.
MaxQuantified == 3

\* Every combination of the five section flags.
SectionFlags ==
  [{"has_summary", "has_skills", "has_experience", "has_projects",
    "has_education"} -> BOOLEAN]

\* Rule-Based Results handed to generate_ai_feedback with a text: the one
\* analyze_cv computes for it, records with no and with every section,
\* and, for the CV that holds twelve of the keywords, every combination of
\* flags with the counts of quantified bullets from 2 to MaxQuantified.
RuleResults(cv_text) ==
  {analyze_cv(cv_text, None)}
    \cup {RuleBasedResult(s, q, 3) : s \in {NoSections, AllSections}, q \in {0, 3}}
    \cup IF cv_text = CvHeader \o WordsText(1, 12)
           THEN {RuleBasedResult(s, q, q) : s \in SectionFlags, q \in 2..MaxQuantified}
           ELSE {}

Languages == {"en", "vi"}

CallEndpoint ==
  \E filename \in Filenames : \E size \in FileSizes :
     \E jd_text \in PipelineJdTexts : ReceiveRequest(filename, size, jd_text)

CallFeedback ==
  \E cv_text \in ExtractedTexts : \E jd_text \in PipelineJdTexts :
     \E rule_based_result \in RuleResults(cv_text) :
        \E language \in Languages :
           CallGenerateAiFeedback(cv_text, jd_text, rule_based_result,
                                  language)

----------------------------------------------------------------------------
(* Specifications                                                           *)

\* The analysis engine by itself: it reads neither the configuration nor
\* a request, and no request is being served.
Init ==
  /\ frames = [p \in Procs |-> IdleFrame]
  /\ use_gemini_api = FALSE
  /\ request = IdleRequest

Step(p) ==
  \/ ExtractKeywordsBegin(p)
  \/ ExtractKeywordsLoop(p)
  \/ CompareKeywordsBegin(p)
  \/ CompareKeywordsLoop(p)
  \/ CountBulletsBegin(p)
  \/ CountBulletsLoop(p)
  \/ DetectSections(p)
  \/ AnalyzeCvBegin(p)
  \/ AnalyzeCvReturn(p)

\* One caller making one call, which runs alone from its invocation to
\* its return.
Next ==
  \/ frames[1].pc = "idle" /\ CallExtractKeywords(1) /\ UNCHANGED <<use_gemini_api, request>>
  \/ frames[1].pc = "idle" /\ CallCompareKeywords(1) /\ UNCHANGED <<use_gemini_api, request>>
  \/ frames[1].pc = "idle" /\ CallCountBullets(1) /\ UNCHANGED <<use_gemini_api, request>>
  \/ frames[1].pc = "idle" /\ CallDetectSections(1) /\ UNCHANGED <<use_gemini_api, request>>
  \/ frames[1].pc = "idle" /\ CallAnalyzeCv(1) /\ UNCHANGED <<use_gemini_api, request>>
  \/ Step(1) /\ UNCHANGED <<use_gemini_api, request>>

Spec == Init /\ [][Next]_vars

\* Concurrent callers, each making call after call: the steps of their
\* calls interleave in any order.
NextConcurrent ==
  \/ /\ \E p \in Procs :
           frames[p].pc \in {"idle", "done"} /\ \E in \in ConcurrentCalls : Call(p, in)
     /\ UNCHANGED <<use_gemini_api, request>>
  \/ /\ \E p \in Procs : Step(p)
     /\ UNCHANGED <<use_gemini_api, request>>

SpecConcurrent == Init /\ [][NextConcurrent]_vars

\* The pipeline serving one request, or the feedback provider serving one
\* call, with the Gemini API configured or not.
InitPipeline ==
  /\ frames = [p \in Procs |-> IdleFrame]
  /\ use_gemini_api \in BOOLEAN
  /\ request = IdleRequest

NextPipeline ==
  \/ request.pc = "idle" /\ CallEndpoint /\ UNCHANGED frames
  \/ request.pc = "idle" /\ CallFeedback /\ UNCHANGED frames
  \/ ValidateFileType /\ UNCHANGED frames
  \/ ReadAndValidateSize /\ UNCHANGED frames
  \/ ExtractText(ExtractedTexts) /\ UNCHANGED frames
  \/ ValidateText /\ UNCHANGED frames
  \/ RunAnalyzeCv /\ UNCHANGED frames
  \/ GenerateAiFeedback /\ UNCHANGED frames
  \/ GeminiFeedback /\ UNCHANGED frames
  \/ MockFeedback /\ UNCHANGED frames
  \/ ReturnResponse /\ UNCHANGED frames
  \/ HandleException /\ UNCHANGED frames

SpecPipeline == InitPipeline /\ [][NextPipeline]_vars

----------------------------------------------------------------------------
(* Properties                                                               *)

ToSet(s) == {s[i] : i \in 1..Len(s)}

\* s is a substring of t.
IsSubstring(s, t) ==
  \E i \in 1..(Len(t) + 1) : \E j \in 0..Len(t) : SubSeq(t, i, j) = s

\* The elements of s at the positions in S, from position i on, in the
\* order of s.
RECURSIVE PickPositions(_, _, _)
PickPositions(s, S, i) ==
  IF i > Len(s) THEN <<>>
  ELSE (IF i \in S THEN <<s[i]>> ELSE <<>>) \o PickPositions(s, S, i + 1)

\* The first n elements of s, all of s when it has fewer.
Take(s, n) == SubSeq(s, 1, IF n < Len(s) THEN n ELSE Len(s))

\* C1: extract_keywords returns at most limit keywords, for every text
\* (None included) and every limit >= 0 (0 included).
C1_LengthAtMostLimit ==
  \A p \in Procs :
     Returned(p, "extract_keywords") =>
        Len(frames[p].keywords) <= frames[p].top_n

\* C2: compare_keywords sends every position of K to exactly one of
\* matched and missing: both are subsequences of K in K's order, their
\* lengths add up to the length of K, together they hold the keywords of
\* K and they have no keyword in common.
C2_Partition ==
  \A p \in Procs :
     Returned(p, "compare_keywords") =>
        LET K       == frames[p].jd_keywords
            matched == frames[p].matched
            missing == frames[p].missing
            all     == 1..Len(K)
        IN  /\ \E S \in SUBSET all :
                  /\ PickPositions(K, S, 1) = matched
                  /\ PickPositions(K, all \ S, 1) = missing
            /\ Len(matched) + Len(missing) = Len(K)
            /\ ToSet(matched) \cup ToSet(missing) = ToSet(K)
            /\ ToSet(matched) \cap ToSet(missing) = {}

\* C2 witness: a returned comparison of a list with a repeated keyword and
\* a keyword with a capital, of which some matched and some did not.
C2_Witness ==
  /\ Returned(1, "compare_keywords")
  /\ frames[1].matched # <<>>
  /\ frames[1].missing # <<>>
  /\ LET K == frames[1].jd_keywords
     IN  /\ \E i, j \in 1..Len(K) : i # j /\ K[i] = K[j]
         /\ \E i \in 1..Len(K) : lower(K[i]) # K[i]

\* C3: count_quantified_bullets returns 0 <= quantified_count <=
\* total_count, as every bullet is tested once and adds at most one: after
\* i - 1 bullets quantified_count is at most i - 1.
C3_QuantifiedAtMostTotal ==
  \A p \in Procs :
     LET f == frames[p]
     IN  /\ f.op = "count_quantified_bullets" /\ f.pc = "cq_loop" =>
              /\ 0 <= f.quantified_count
              /\ f.quantified_count <= f.i - 1
              /\ f.i - 1 <= f.total_count
         /\ Returned(p, "count_quantified_bullets") =>
              /\ 0 <= f.quantified_count
              /\ f.quantified_count <= f.total_count

\* C3 witness: a returned count of several bullets, some quantified and
\* some not.
C3_Witness ==
  /\ Returned(1, "count_quantified_bullets")
  /\ 0 < frames[1].quantified_count
  /\ frames[1].quantified_count < frames[1].total_count

\* The function of Args(f) applied to its arguments alone.
Apply(in) ==
  CASE in.op = "extract_keywords"         -> extract_keywords(in.text, in.top_n)
    [] in.op = "compare_keywords"         ->
         compare_keywords(in.text.str, in.jd_keywords)
    [] in.op = "count_quantified_bullets" -> count_quantified_bullets(in.text.str)
    [] in.op = "detect_sections"          -> detect_sections(in.text.str)
    [] in.op = "analyze_cv"               -> analyze_cv(in.text.str, in.jd_text)

\* Two finished calls with the same arguments have returned the same
\* value, and every finished call the value its arguments alone determine.
SameArgsSameResult ==
  /\ \A p, q \in Procs :
        (/\ frames[p].pc = "done"
         /\ frames[q].pc = "done"
         /\ Args(frames[p]) = Args(frames[q]))
           => Ret(frames[p]) = Ret(frames[q])
  /\ \A p \in Procs :
        frames[p].pc = "done" => Ret(frames[p]) = Apply(Args(frames[p]))

\* A step of one caller leaves the frames of the other callers as they
\* are.
OwnFrameOnly ==
  \A p \in Procs :
     frames'[p] # frames[p] => \A q \in Procs \ {p} : frames'[q] = frames[q]

\* C4: the core functions are pure: whatever calls ran before and however
\* the steps of concurrent calls interleave, calls with the same arguments
\* return the same value, which depends on the arguments only, and no call
\* changes anything another call can see.
C4_Pure == []SameArgsSameResult /\ [][OwnFrameOnly]_vars

\* C4 witness: two callers have finished extract_keywords on the same
\* arguments, with keywords found.
C4_Witness ==
  /\ Returned(1, "extract_keywords")
  /\ Returned(2, "extract_keywords")
  /\ Args(frames[1]) = Args(frames[2])
  /\ Len(frames[1].keywords) = 2

\* The words of tokens that extract_keywords retains: longer than two
\* letters and no stopword.
Retained(tokens) ==
  SelectSeq(tokens, LAMBDA w : Len(w) > 2 /\ w \notin stopwords)

\* The first occurrence of every element of s, in the order of s.
FirstOccurrences(s) ==
  PickPositions(s, {i \in 1..Len(s) : \A j \in 1..(i - 1) : s[j] # s[i]}, 1)

\* C5: for limit >= 1, extract_keywords(T, limit) is the first limit
\* elements of the reference sequence: T's tokens in order, without the
\* tokens of length <= 2 and the stopwords, first occurrences only. So
\* the result is lowercase and free of duplicates, and the results for
\* smaller limits are its prefixes.
C5_PrefixOfReference ==
  \A p \in Procs :
     (/\ Returned(p, "extract_keywords")
      /\ frames[p].top_n >= 1
      /\ ~frames[p].text.is_none) =>
        LET f         == frames[p]
            tokens    == word_findall(lower(f.text.str), 0)
            reference == FirstOccurrences(Retained(tokens))
        IN  /\ f.keywords = Take(reference, f.top_n)
            /\ \A i \in 1..Len(f.keywords) : lower(f.keywords[i]) = f.keywords[i]
            /\ Cardinality(ToSet(f.keywords)) = Len(f.keywords)
            /\ \A n \in 1..f.top_n :
                  extract_keywords(f.text, n) = Take(f.keywords, n)

\* C5 witness: a returned extraction that stopped at the limit with
\* retained words left, from a text with a repeated word.
C5_Witness ==
  /\ Returned(1, "extract_keywords")
  /\ frames[1].top_n >= 1
  /\ Len(frames[1].keywords) = frames[1].top_n
  /\ LET kept == Retained(word_findall(lower(frames[1].text.str), 0))
     IN  /\ Len(FirstOccurrences(kept)) > frames[1].top_n
         /\ Len(kept) > Len(FirstOccurrences(kept))

\* The maximal runs of characters of class cls in s, from position i on.
RECURSIVE MaximalRunsFrom(_, _, _)
MaximalRunsFrom(s, cls, i) ==
  IF i > Len(s) THEN <<>>
  ELSE IF s[i] \in cls /\ (i = 1 \/ s[i - 1] \notin cls)
    THEN LET e == CHOOSE k \in i..Len(s) :
                     /\ \A j \in i..k : s[j] \in cls
                     /\ k = Len(s) \/ s[k + 1] \notin cls
         IN  <<SubSeq(s, i, e)>> \o MaximalRunsFrom(s, cls, i + 1)
    ELSE MaximalRunsFrom(s, cls, i + 1)

MaximalRuns(s, cls) == MaximalRunsFrom(s, cls, 1)

\* C6 as stated: the tokens of extract_keywords are the maximal runs of
\* a-z of the lowercased text, whatever character stands before or after
\* a run.
C6_MaximalLetterRuns ==
  \A p \in Procs :
     frames[p].op = "extract_keywords" /\ frames[p].pc = "ek_loop" =>
        frames[p].words = MaximalRuns(lower(frames[p].text.str), LowerLetters)

\* C6 amended: the tokens of extract_keywords are those maximal runs of
\* word characters (letters of any script, digits, underscore) of the
\* lowercased text that are made of a-z only, in order; a run of letters
\* next to a digit, an underscore or a letter outside a-z is no token, and
\* no token holds a character outside a-z.
C6_WholeWordsOfLetters ==
  \A p \in Procs :
     frames[p].op = "extract_keywords" /\ frames[p].pc = "ek_loop" =>
        /\ frames[p].words =
             SelectSeq(MaximalRuns(lower(frames[p].text.str), WordChars),
                       LAMBDA w : ToSet(w) \subseteq LowerLetters)
        /\ \A i \in 1..Len(frames[p].words) :
              ToSet(frames[p].words[i]) \subseteq LowerLetters

\* C6 witness: the text "Dog-cat3" tokenized: dog is a token, cat is not.
C6_Witness ==
  /\ frames[1].op = "extract_keywords"
  /\ frames[1].pc = "ek_loop"
  /\ frames[1].text = Some(<<"D", "o", "g", "-", "c", "a", "t", "3">>)
  /\ frames[1].words = <<<<"d", "o", "g">>>>

\* C7: each flag of detect_sections is true exactly when a phrase of its
\* category is a substring of the lowercased text, inside a longer word
\* or not, whatever the other flags are; "My Skills: Python, Go" sets
\* has_skills only.
C7_FlagIffPhrase ==
  \A p \in Procs :
     Returned(p, "detect_sections") =>
        LET f      == frames[p]
            folded == lower(f.text.str)
            has(phrases) == \E phrase \in phrases : IsSubstring(phrase, folded)
        IN  /\ f.sections.has_summary    <=> has(summary_keywords)
            /\ f.sections.has_skills     <=> has(skills_keywords)
            /\ f.sections.has_experience <=> has(experience_keywords)
            /\ f.sections.has_projects   <=> has(projects_keywords)
            /\ f.sections.has_education  <=> has(education_keywords)
            /\ f.text.str = SectionScenario =>
                  f.sections = [NoSections EXCEPT !.has_skills = TRUE]

\* C7 witness: detect_sections has returned for "My misEducation": the
\* phrase inside the longer word sets has_education, and nothing else is
\* set.
C7_Witness ==
  /\ Returned(1, "detect_sections")
  /\ frames[1].text = Some(<<"M", "y", " ", "m", "i", "s", "E", "d", "u", "c", "a", "t", "i", "o", "n">>)
  /\ frames[1].sections = [NoSections EXCEPT !.has_education = TRUE]

\* The lines of s: the pieces between its newlines.
RECURSIVE SplitLines(_)
SplitLines(s) ==
  IF \A i \in 1..Len(s) : s[i] # NL THEN <<s>>
  ELSE LET n == CHOOSE i \in 1..Len(s) :
                   s[i] = NL /\ \A j \in 1..(i - 1) : s[j] # NL
       IN  <<SubSeq(s, 1, n - 1)>> \o SplitLines(SubSeq(s, n + 1, Len(s)))

\* The line alone is a bullet: whitespace up to a, glyphs up to b > a,
\* whitespace up to c, and content after c.
LineIsBullet(line) ==
  \E a, b, c \in 0..Len(line) :
     /\ a < b /\ b <= c /\ c < Len(line)
     /\ \A j \in 1..a : line[j] \in SpaceChars
     /\ \A j \in (a + 1)..b : line[j] \in BulletGlyphs
     /\ \A j \in (b + 1)..c : line[j] \in SpaceChars

\* C8: total_count is the number of lines of the text that, taken alone,
\* are a bullet: optional whitespace, one or more glyphs, optional
\* whitespace, then content to the end of that line.
C8_TotalIsBulletLines ==
  \A p \in Procs :
     Returned(p, "count_quantified_bullets") =>
        LET lines == SplitLines(frames[p].text.str)
        IN  frames[p].total_count =
              Cardinality({i \in 1..Len(lines) : LineIsBullet(lines[i])})

\* The bullet holds a digit followed by %, + or x, by a comma and a digit,
\* or by a character of spaces and an ASCII letter.
HasMetric(bullet, spaces) ==
  \E k \in 1..(Len(bullet) - 1) :
     /\ bullet[k] \in Digits
     /\ \/ bullet[k + 1] \in {"%", "+", "x"}
        \/ /\ k + 2 <= Len(bullet)
           /\ \/ bullet[k + 1] = "," /\ bullet[k + 2] \in Digits
              \/ bullet[k + 1] \in spaces /\ bullet[k + 2] \in AsciiLetters

\* After i - 1 bullets, quantified_count is the number of those bullets
\* that hold a metric; and the two scenarios give (1, 2) and (1, 1).
QuantifiedIffMetric(spaces) ==
  \A p \in Procs :
     LET f == frames[p]
     IN  /\ f.op = "count_quantified_bullets" /\ f.pc \in {"cq_loop", "done"} =>
              f.quantified_count =
                Cardinality({j \in 1..(f.i - 1) : HasMetric(f.bullets[j], spaces)})
         /\ (/\ Returned(p, "count_quantified_bullets")
             /\ f.text.str = <<"-", " ", "I", "m", "p", "r", "o", "v", "e", "d", " ", "l", "a", "t", "e", "n", "c", "y", " ", "b", "y", " ", "4", "0", "%", NL, "-", " ", "H", "e", "l", "p", "e", "d", " ", "t", "e", "a", "m">>) =>
               Ret(f) = <<1, 2>>
         /\ (/\ Returned(p, "count_quantified_bullets")
             /\ f.text.str = <<"*", " ", "L", "e", "d", " ", "a", " ", "t", "e", "a", "m", " ", "o", "f", " ", "1", "0", " ", "e", "n", "g", "i", "n", "e", "e", "r", "s">>) =>
               Ret(f) = <<1, 1>>

C10_MatchedIffSubstring ==
  \A p \in Procs :
     Returned(p, "compare_keywords") =>
        LET f      == frames[p]
            K      == f.jd_keywords
            folded == lower(f.text.str)
        IN  /\ \A i \in 1..Len(K) :
                  IF IsSubstring(lower(K[i]), folded)
                    THEN K[i] \in ToSet(f.matched) /\ K[i] \notin ToSet(f.missing)
                    ELSE K[i] \in ToSet(f.missing) /\ K[i] \notin ToSet(f.matched)
            /\ (f.text.str = MatchScenarioText /\ K = MatchScenarioKeywords) =>
                  /\ f.matched = <<<<"p", "y", "t", "h", "o", "n">>, <<"r", "e", "a", "c", "t">>>>
                  /\ f.missing = <<<<"j", "a", "v", "a">>>>

\* C10 witness: the comparison of "javascript " with [Python, java] has
\* returned: java matched inside the longer word, Python is missing.
C10_Witness ==
  /\ Returned(1, "compare_keywords")
  /\ frames[1].text = Some(<<"j", "a", "v", "a", "s", "c", "r", "i", "p", "t", " ">>)
  /\ frames[1].jd_keywords = <<<<"P", "y", "t", "h", "o", "n">>, <<"j", "a", "v", "a">>>>
  /\ frames[1].matched = <<<<"j", "a", "v", "a">>>>
  /\ frames[1].missing = <<<<"P", "y", "t", "h", "o", "n">>>>

----------------------------------------------------------------------------
\* analyze_cv as an aggregation of the two structural analyses.

\* C11: a finished call analyze_cv(T, jd_text) returns the record whose five
\* flags are detect_sections(T) and whose counts are
\* count_quantified_bullets(T), whatever jd_text is: the right-hand side
\* does not read jd_text, so calls that differ only in jd_text return equal
\* records.
C11_AggregatesIgnoringJd ==
  \A p \in Procs :
     Returned(p, "analyze_cv") =>
        LET f == frames[p]
            counts == count_quantified_bullets(f.text.str)
        IN  Ret(f) = RuleBasedResult(detect_sections(f.text.str),
                                     counts[1], counts[2])

C11_Witness ==
  \E p \in Procs :
     /\ Returned(p, "analyze_cv")
     /\ Truthy(frames[p].jd_text)
     /\ Ret(frames[p]).has_summary
     /\ Ret(frames[p]).quantified_bullet_count = 1
     /\ Ret(frames[p]).total_bullet_count = 1

\* The text has no bullet line: none of its lines, taken alone, is a bullet.
NoBulletLine(t) ==
  LET lines == SplitLines(t)
  IN  \A n \in 1..Len(lines) : ~LineIsBullet(lines[n])

\* C12: analyze_cv on the empty string ends without an exception with the
\* five flags false and the counts (0, 0), and so does, for the counts,
\* every text with no bullet line.
C12_NoBulletLineGivesZero ==
  \A p \in Procs :
     LET f == frames[p]
     IN  /\ f.op = "analyze_cv" => f.pc # "raised"
         /\ Returned(p, "analyze_cv") =>
               /\ f.text.str = <<>> =>
                     Ret(f) = RuleBasedResult(NoSections, 0, 0)
               /\ NoBulletLine(f.text.str) =>
                     /\ Ret(f).quantified_bullet_count = 0
                     /\ Ret(f).total_bullet_count = 0

\* C13: extract_keywords on a null or an empty text ends without an
\* exception and returns the empty list, for every limit.
C13_EmptyForNoText ==
  \A p \in Procs :
     LET f == frames[p]
     IN  (f.op = "extract_keywords" /\ ~Truthy(f.text)) =>
            /\ f.pc # "raised"
            /\ f.pc = "done" => Ret(f) = <<>>

C13_Witness ==
  /\ \E p \in Procs :
        /\ Returned(p, "extract_keywords")
        /\ frames[p].text = None
        /\ frames[p].top_n = MaxTopN
        /\ Ret(frames[p]) = <<>>

----------------------------------------------------------------------------
\* The feedback provider and the request pipeline.

\* generate_ai_feedback has returned: it was invoked and the request went
\* on to the answer without an exception.
FeedbackReturned ==
  /\ "generate_ai_feedback" \in request.invoked
  /\ request.pc \in {"respond", "done"}
  /\ request.exc = NoException

\* The full keyword list of a job description and its match against a CV.
FullKeywords(jd_text) == extract_keywords(jd_text, 20)

FullMatch(cv_text, jd_text) == compare_keywords(cv_text, FullKeywords(jd_text))

\* C14: generate_ai_feedback always ends by returning a response, never by
\* an exception.  When Gemini is not configured it is never called; when
\* it is not configured or fails (the API raises, the answer is not JSON,
\* the JSON does not fit the schema), the response is the mock response
\* built from the same cv_text, jd_text and Rule-Based Result.
C14_FallbackToMock ==
  /\ request.pc # "raised"
  /\ request.exc.kind \in {"none", "HTTPException"}
  /\ ~use_gemini_api => request.gemini = "none"
  /\ ("generate_ai_feedback" \in request.invoked /\ request.pc = "done") =>
        /\ FeedbackReturned
        /\ request.response.source \in {"gemini", "mock"}
        /\ request.gemini # "ok" =>
              request.response =
                 MockFeedbackResponse(request.cv_text, request.jd_text,
                    request.rule_based_result, request.language)

C14_Witness ==
  /\ FeedbackReturned
  /\ request.pc = "done"
  /\ use_gemini_api
  /\ request.gemini = "ValidationError"
  /\ request.response.source = "mock"
  /\ ~request.response.jd_analysis.is_none

\* C15 as stated: a request whose text extraction failed is answered with
\* a response body (status 200), not with an error response.
C15_FallbackOnExtractionFailure ==
  (request.pc = "done" /\ request.extraction = "raised") =>
     /\ request.status = 200
     /\ request.response.source # "none"

\* C15: a failure of the text extraction is caught at the boundary and
\* answered with the error response 500 that reports it; no response body
\* is built, and neither analyze_cv nor generate_ai_feedback is invoked.
C15_ExtractionFailureIs500 ==
  request.extraction = "raised" =>
     /\ request.pc \in {"except", "done"}
     /\ request.invoked = {"extract_cv_text"}
     /\ request.pc = "done" =>
           /\ request.status = 500
           /\ request.detail = "extract_failed"
           /\ request.response = NoResponse

C15_Witness ==
  /\ request.pc = "done"
  /\ request.extraction = "raised"
  /\ request.status = 500
  /\ request.filename = Some(<<"c", "v", ".", "p", "d", "f">>)

\* The filename of the request ends, whatever the case of its letters, in
\* one of the two extensions.
HasAllowedExtension ==
  /\ ~request.filename.is_none
  /\ \E ext \in {<<".", "p", "d", "f">>, <<".", "d", "o", "c", "x">>} :
        endswith(lower(request.filename.str), ext)

\* C16: a request whose filename has neither extension (or no extension,
\* or is missing), or whose payload is larger than MAX_FILE_SIZE, never has
\* the extraction, analyze_cv or generate_ai_feedback invoked, and is
\* answered with the status 400, which no handler turns into a 500.
C16_RejectedBeforeCore ==
  (/\ request.entry = "endpoint"
   /\ ~HasAllowedExtension \/ request.size > MAX_FILE_SIZE) =>
     /\ request.invoked = {}
     /\ request.pc \in {"validate_type", "read", "except", "done"}
     /\ request.pc = "done" =>
           /\ request.status = 400
           /\ request.response = NoResponse

C16_Witness ==
  /\ request.pc = "done"
  /\ HasAllowedExtension
  /\ request.size > MAX_FILE_SIZE
  /\ request.status = 400
  /\ request.detail = "too_large"
  /\ request.invoked = {}

\* A response body has been built for the request.
HasResponse == request.response.source # "none"

\* C17: in a response with a keyword analysis, jd_keywords is the first 15
\* keywords (or all of them) of the full list, matched_keywords and
\* missing_keywords the first 10 (or all) of the full matched and missing
\* lists; compare_keywords itself returns the lists whole, every keyword
\* of the full list in one of them.
C17_DisplayedArePrefixes ==
  (HasResponse /\ ~request.response.jd_analysis.is_none) =>
     LET shown    == request.response.jd_analysis
         keywords == FullKeywords(request.jd_text)
         full     == FullMatch(request.cv_text, request.jd_text)
     IN  /\ Len(shown.jd_keywords) <= 15
         /\ Len(shown.matched_keywords) <= 10
         /\ Len(shown.missing_keywords) <= 10
         /\ shown.jd_keywords = Take(keywords, 15)
         /\ shown.matched_keywords = Take(full[1], 10)
         /\ shown.missing_keywords = Take(full[2], 10)
         /\ Len(full[1]) + Len(full[2]) = Len(keywords)

C17_Witness ==
  /\ request.pc = "done"
  /\ HasResponse
  /\ request.response.source = "mock"
  /\ Len(request.response.jd_analysis.jd_keywords) = 15
  /\ Len(request.response.jd_analysis.matched_keywords) = 10
  /\ Len(FullKeywords(request.jd_text)) = 20
  /\ Len(FullMatch(request.cv_text, request.jd_text)[1]) > 10

\* C18: every keyword of the displayed matched_keywords and
\* missing_keywords is also in the displayed jd_keywords.
C18_DisplayedMatchWithinDisplayedKeywords ==
  (HasResponse /\ ~request.response.jd_analysis.is_none) =>
     LET shown == request.response.jd_analysis
     IN  /\ ToSet(shown.matched_keywords) \subseteq ToSet(shown.jd_keywords)
         /\ ToSet(shown.missing_keywords) \subseteq ToSet(shown.jd_keywords)

\* C19: a response holds a keyword analysis exactly when jd_text is given
\* and not empty.  The analysis is computed as extract_keywords(jd_text, 20)
\* followed by compare_keywords(cv_text, those keywords), each list cut for
\* display, also when no keyword is extracted.
C19_JdAnalysisIffJdText ==
  HasResponse =>
     LET shown == request.response.jd_analysis
         given == ~request.jd_text.is_none /\ request.jd_text.str # <<>>
         jd_keywords == extract_keywords(request.jd_text, 20)
         result == compare_keywords(request.cv_text, jd_keywords)
     IN  /\ shown.is_none <=> ~given
         /\ ~given => shown = NoJdAnalysis
         /\ given =>
               shown = [is_none          |-> FALSE,
                        jd_keywords      |-> Take(jd_keywords, 15),
                        matched_keywords |-> Take(result[1], 10),
                        missing_keywords |-> Take(result[2], 10)]

C19_Witness ==
  /\ request.pc = "done"
  /\ HasResponse
  /\ request.jd_text = Some(<<" ">>)
  /\ ~request.response.jd_analysis.is_none
  /\ request.response.jd_analysis.jd_keywords = <<>>
  /\ request.response.jd_analysis.matched_keywords = <<>>
  /\ request.response.jd_analysis.missing_keywords = <<>>

\* C20: section_checklist and jd_analysis of a response are those both
\* providers compute from cv_text, jd_text and the Rule-Based Result,
\* whichever provider wrote the response (Gemini, the mock, the mock after
\* a failure of Gemini) and whatever the language.
C20_ChecklistAndMatchIndependentOfPath ==
  HasResponse =>
     LET r == request.rule_based_result
     IN  /\ request.response.section_checklist =
               [has_summary    |-> r.has_summary,
                has_skills     |-> r.has_skills,
                has_experience |-> r.has_experience,
                has_projects   |-> r.has_projects,
                has_education  |-> r.has_education]
         /\ request.response.section_checklist = GeminiSectionChecklist(r)
         /\ request.response.section_checklist = MockSectionChecklist(r)
         /\ request.response.jd_analysis =
               GeminiJdAnalysis(request.cv_text, request.jd_text)
         /\ request.response.jd_analysis =
               MockJdAnalysis(request.cv_text, request.jd_text)

C20_Witness ==
  /\ request.pc = "done"
  /\ request.response.source = "gemini"
  /\ request.language = "vi"
  /\ request.response.section_checklist.has_summary
  /\ Len(request.response.jd_analysis.missing_keywords) = 10
  /\ Len(FullMatch(request.cv_text, request.jd_text)[2]) > 10

\* The number of entries of a list of remarks that carry the tag.
CountTag(remarks, tag) ==
  Cardinality({n \in 1..Len(remarks) : remarks[n].tag = tag})

\* C21: in every response the mock writes, strengths and weaknesses have
\* between two and five entries each, and exactly one quantification remark
\* is made: the strength "quantified" when quantified_bullet_count > 2,
\* the weakness "not_quantified" otherwise.
C21_MockListsAndOneQuantRemark ==
  request.response.source = "mock" =>
     LET strengths  == request.response.strengths
         weaknesses == request.response.weaknesses
         quantified == request.rule_based_result.quantified_bullet_count
     IN  /\ Len(strengths) \in 2..5
         /\ Len(weaknesses) \in 2..5
         /\ CountTag(strengths, "quantified")
               + CountTag(weaknesses, "not_quantified") = 1
         /\ CountTag(strengths, "quantified") = 1 <=> quantified > 2

C21_Witness ==
  /\ request.pc = "done"
  /\ request.response.source = "mock"
  /\ request.language = "vi"
  /\ request.rule_based_result.quantified_bullet_count = 3
  /\ Len(request.response.strengths) = 5
  /\ Len(request.response.weaknesses) = 2
  /\ CountTag(request.response.strengths, "quantified") = 1
====
